---- MODULE Spec2Model ----
(***************************************************************************)
(* gcp-ips (main.go): inventory of the IP addresses used in a shared VPC.  *)
(*                                                                         *)
(* main: getAllResources fans one goroutine per service project out, each  *)
(* calling getResources and sending its snapshot on an unbuffered channel; *)
(* flatten merges the snapshots' address and instance records into a map   *)
(* keyed by IP (insertAddressInfo: existing entries have precedence);      *)
(* extractFields re-keys the map by subnet; writeAll/writeToFile sort each *)
(* subnet's records by parsed IP and write one table per subnet.           *)
(*                                                                         *)
(* Go values: a string is a TLA+ string, and the code's string operations  *)
(* (strings.Split, net.ParseIP) work on its characters, Chars(s).  A       *)
(* pointer or a slice that may be nil is a sequence of length at most one: *)
(* <<>> is nil, <<v>> is non-nil with value v.                             *)
(***************************************************************************)
EXTENDS Integers, Sequences, FiniteSets, TLC

(***************************************************************************)
(* Bounds of the model.                                                    *)
(***************************************************************************)
\* service projects attached to the host project (res.Resources)
MaxProjects == 2
\* candidates inserted in a run of the insertAddressInfo specification
MaxInserts == 2
\* records of the subnet group handed to writeToFile in the sort specification
MaxGroup == 3

(***************************************************************************)
(* Strings                                                                 *)
(***************************************************************************)
SubnetworkPath ==
    << "r", "e", "g", "i", "o", "n", "s", "/", "r", "1", "/",
       "s", "u", "b", "n", "e", "t", "w", "o", "r", "k", "s", "/" >>

InstancePath ==
    << "z", "o", "n", "e", "s", "/", "z", "1", "/",
       "i", "n", "s", "t", "a", "n", "c", "e", "s", "/" >>

\* The characters of each string the model uses.
Chars(s) ==
    CASE s = "" -> << >>
      [] s = "10.0.0.2" -> << "1", "0", ".", "0", ".", "0", ".", "2" >>
      [] s = "10.0.0.5" -> << "1", "0", ".", "0", ".", "0", ".", "5" >>
      [] s = "10.0.0.9" -> << "1", "0", ".", "0", ".", "0", ".", "9" >>
      [] s = "10.0.0.10" -> << "1", "0", ".", "0", ".", "0", ".", "1", "0" >>
      [] s = "10.0.1.1" -> << "1", "0", ".", "0", ".", "1", ".", "1" >>
      [] s = "sub1" -> << "s", "u", "b", "1" >>
      [] s = "sub2" -> << "s", "u", "b", "2" >>
      [] s = "vm1" -> << "v", "m", "1" >>
      [] s = "vm2" -> << "v", "m", "2" >>
      [] s = "vm3" -> << "v", "m", "3" >>
      [] s = "regions/r1/subnetworks/sub1" -> SubnetworkPath \o << "s", "u", "b", "1" >>
      [] s = "regions/r1/subnetworks/sub2" -> SubnetworkPath \o << "s", "u", "b", "2" >>
      [] s = "zones/z1/instances/vm1" -> InstancePath \o << "v", "m", "1" >>
      [] s = "zones/z1/instances/vm2" -> InstancePath \o << "v", "m", "2" >>

Strings ==
    { "", "10.0.0.2", "10.0.0.5", "10.0.0.9", "10.0.0.10", "10.0.1.1",
      "sub1", "sub2", "vm1", "vm2", "vm3",
      "regions/r1/subnetworks/sub1", "regions/r1/subnetworks/sub2",
      "zones/z1/instances/vm1", "zones/z1/instances/vm2" }

\* The string with the characters cs.
FromChars(cs) == CHOOSE s \in Strings : Chars(s) = cs

\* ASCII codes of the characters of IP texts (Go compares strings bytewise).
Code(c) ==
    CASE c = "." -> 46
      [] c = "0" -> 48 [] c = "1" -> 49 [] c = "2" -> 50 [] c = "3" -> 51
      [] c = "4" -> 52 [] c = "5" -> 53 [] c = "6" -> 54 [] c = "7" -> 55
      [] c = "8" -> 56 [] c = "9" -> 57

Digits == { "0", "1", "2", "3", "4", "5", "6", "7", "8", "9" }

\* strings.Split(s, sep) on characters: the segments between the separators;
\* a string without separator is its own single segment, also when empty.
RECURSIVE SplitFrom(_, _, _)
SplitFrom(cs, sep, cur) ==
    IF cs = << >> THEN << cur >>
    ELSE IF Head(cs) = sep THEN << cur >> \o SplitFrom(Tail(cs), sep, << >>)
    ELSE SplitFrom(Tail(cs), sep, Append(cur, Head(cs)))

Split(cs, sep) == SplitFrom(cs, sep, << >>)

\* getName: the resource name at the end of a self-link.
getName(selfLink) ==
    LET split == Split(Chars(selfLink), "/") IN FromChars(split[Len(split)])

(***************************************************************************)
(* net.ParseIP and bytes.Compare                                           *)
(***************************************************************************)
\* The value of a decimal field of an IPv4 text, or -1 when it is no field:
\* empty, not all digits, a leading zero, or above 255.
RECURSIVE DecimalValue(_, _)
DecimalValue(cs, acc) ==
    IF cs = << >> THEN acc
    ELSE IF Head(cs) \notin Digits THEN -1
    ELSE IF acc * 10 + (Code(Head(cs)) - 48) > 255 THEN -1
    ELSE DecimalValue(Tail(cs), acc * 10 + (Code(Head(cs)) - 48))

ParseField(cs) ==
    IF cs = << >> THEN -1
    ELSE IF Len(cs) > 1 /\ Head(cs) = "0" THEN -1
    ELSE DecimalValue(cs, 0)

\* The 12 bytes in front of an IPv4 address in its 16-byte form.
v4InV6Prefix == << 0, 0, 0, 0, 0, 0, 0, 0, 0, 0, 255, 255 >>

\* net.ParseIP of a dotted-decimal text: the 16-byte form of the address, or
\* nil (the empty byte slice) when the text is no IPv4 address.
ParseIP(s) ==
    LET fields == Split(Chars(s), ".")
    IN  IF Len(fields) = 4 /\ \A i \in 1..4 : ParseField(fields[i]) >= 0
        THEN v4InV6Prefix \o [i \in 1..4 |-> ParseField(fields[i])]
        ELSE << >>

\* bytes.Compare(a, b) < 0: lexicographic order on byte slices.
RECURSIVE BytesLess(_, _)
BytesLess(a, b) ==
    IF b = << >> THEN FALSE
    ELSE IF a = << >> THEN TRUE
    ELSE IF Head(a) # Head(b) THEN Head(a) < Head(b)
    ELSE BytesLess(Tail(a), Tail(b))

\* Go's s < t on strings: lexicographic order on their bytes.
StringLess(s, t) ==
    BytesLess([i \in 1..Len(Chars(s)) |-> Code(Chars(s)[i])],
              [i \in 1..Len(Chars(t)) |-> Code(Chars(t)[i])])

\* A mutant of less: the IP texts compared as strings.
lessByString(x, y) == StringLess(x.IP, y.IP)

\* The less function writeToFile gives to sort.Slice.
less(x, y) == BytesLess(ParseIP(x.IP), ParseIP(y.IP))

(***************************************************************************)
(* Helpers on sequences and sets                                           *)
(***************************************************************************)
\* The sequences that list the elements of the set S once each, in any order:
\* the orders in which a Go range over a map with these entries can visit them.
Orders(S) ==
    { q \in [1..Cardinality(S) -> S] : \A i, j \in DOMAIN q : i # j => q[i] # q[j] }

\* The rearrangements of the sequence q.
Rearrangements(q) == { [i \in DOMAIN q |-> q[f[i]]] : f \in Orders(DOMAIN q) }

RECURSIVE Concat(_)
Concat(qs) == IF qs = << >> THEN << >> ELSE Head(qs) \o Concat(Tail(qs))

Range(q) == { q[i] : i \in DOMAIN q }

(***************************************************************************)
(* The merge: insertAddressInfo and the candidates flatten builds          *)
(***************************************************************************)
\* make(map[string]*AddressInfo)
EmptyMap == [ip \in {} |-> ip]

\* A mutant of insertAddressInfo: a new record is not stored.
insertAddressInfoMergeOnly(addressInfoMap, addressInfo) ==
    LET ip == addressInfo.IP
    IN  IF ip \in DOMAIN addressInfoMap
        THEN [addressInfoMap EXCEPT ![ip] =
                 [@ EXCEPT !.Status = IF @ = "" THEN addressInfo.Status ELSE @,
                           !.Subnet = IF @ = "" THEN addressInfo.Subnet ELSE @,
                           !.User = IF @ = "" THEN addressInfo.User ELSE @]]
        ELSE addressInfoMap

\* A mutant of insertAddressInfo: the later record replaces the existing one.
insertAddressInfoOverwrite(addressInfoMap, addressInfo) ==
    [k \in DOMAIN addressInfoMap \cup {addressInfo.IP} |->
        IF k = addressInfo.IP THEN addressInfo ELSE addressInfoMap[k]]

\* A mutant of insertAddressInfo: the later record's non-empty fields win.
insertAddressInfoLastWins(addressInfoMap, addressInfo) ==
    LET ip == addressInfo.IP
    IN  IF ip \in DOMAIN addressInfoMap
        THEN [addressInfoMap EXCEPT ![ip] =
                 [@ EXCEPT !.Status = IF addressInfo.Status # "" THEN addressInfo.Status ELSE @,
                           !.Subnet = IF addressInfo.Subnet # "" THEN addressInfo.Subnet ELSE @,
                           !.User = IF addressInfo.User # "" THEN addressInfo.User ELSE @]]
        ELSE [k \in DOMAIN addressInfoMap \cup {ip} |->
                 IF k = ip THEN addressInfo ELSE addressInfoMap[k]]

\* A mutant of insertAddressInfo: a record for an IP already in the map is dropped.
insertAddressInfoNoMerge(addressInfoMap, addressInfo) ==
    LET ip == addressInfo.IP
    IN  IF ip \in DOMAIN addressInfoMap
        THEN addressInfoMap
        ELSE [k \in DOMAIN addressInfoMap \cup {ip} |->
                 IF k = ip THEN addressInfo ELSE addressInfoMap[k]]

\* A mutant of insertAddressInfo: the existing record takes the project of the
\* record merged into it.
insertAddressInfoTakesProject(addressInfoMap, addressInfo) ==
    LET ip == addressInfo.IP
    IN  IF ip \in DOMAIN addressInfoMap
        THEN [addressInfoMap EXCEPT ![ip] =
                 [@ EXCEPT !.Project = addressInfo.Project,
                           !.Status = IF @ = "" THEN addressInfo.Status ELSE @,
                           !.Subnet = IF @ = "" THEN addressInfo.Subnet ELSE @,
                           !.User = IF @ = "" THEN addressInfo.User ELSE @]]
        ELSE [k \in DOMAIN addressInfoMap \cup {ip} |->
                 IF k = ip THEN addressInfo ELSE addressInfoMap[k]]

\* insertAddressInfo: the map after the insert.  An existing entry keeps its
\* non-empty Status, Subnet and User, and its Project and IP.
insertAddressInfo(addressInfoMap, addressInfo) ==
    LET ip == addressInfo.IP
    IN  IF ip \in DOMAIN addressInfoMap
        THEN LET existingInfo == addressInfoMap[ip]
             IN  [addressInfoMap EXCEPT ![ip] =
                     [existingInfo EXCEPT
                         !.Status = IF existingInfo.Status = "" THEN addressInfo.Status ELSE @,
                         !.Subnet = IF existingInfo.Subnet = "" THEN addressInfo.Subnet ELSE @,
                         !.User = IF existingInfo.User = "" THEN addressInfo.User ELSE @]]
        ELSE [k \in DOMAIN addressInfoMap \cup {ip} |->
                 IF k = ip THEN addressInfo ELSE addressInfoMap[k]]

\* address.Users[0] of a non-nil but empty Users: index out of range.
AddressPanics(address) == address.Users # << >> /\ address.Users[1] = << >>

\* The AddressInfo flatten builds from an address record of project p.
AddressCandidate(project, address) ==
    [ Project |-> project,
      IP |-> address.Address,
      Status |-> address.Status,
      Subnet |-> getName(address.Subnetwork),
      User |-> IF address.Users # << >> THEN getName(address.Users[1][1]) ELSE "" ]

\* instance.NetworkInterfaces[0] of an instance without interface: index out of range.
InstancePanics(instance) == instance.NetworkInterfaces = << >>

\* A mutant of InstanceCandidate: an attached address is marked as in use.
InstanceCandidateInUse(project, instance) ==
    [ Project |-> project,
      IP |-> instance.NetworkInterfaces[1].NetworkIP,
      Status |-> "IN_USE",
      Subnet |-> getName(instance.NetworkInterfaces[1].Subnetwork),
      User |-> instance.Name ]

\* The AddressInfo flatten builds from an instance record of project p.
InstanceCandidate(project, instance) ==
    [ Project |-> project,
      IP |-> instance.NetworkInterfaces[1].NetworkIP,
      Status |-> "",
      Subnet |-> getName(instance.NetworkInterfaces[1].Subnetwork),
      User |-> instance.Name ]

(***************************************************************************)
(* The upstream API: what the calls of a run can return                    *)
(***************************************************************************)
ProjectIDs == << "svc-a", "svc-b", "svc-c" >>

\* res.Resources of getServiceProjects: the first n service projects.
ProjectLists ==
    { SubSeq(ProjectIDs, 1, n) :
        n \in 0..(IF MaxProjects < Len(ProjectIDs) THEN MaxProjects ELSE Len(ProjectIDs)) }

Sub1Link == "regions/r1/subnetworks/sub1"
Sub2Link == "regions/r1/subnetworks/sub2"

\* Reserved, not in use: no Users.
ReservedAddress ==
    [ Address |-> "10.0.0.5", Status |-> "RESERVED", Subnetwork |-> Sub1Link,
      Users |-> << >> ]
\* In use by vm2, in another subnet.
InUseAddress ==
    [ Address |-> "10.0.0.5", Status |-> "IN_USE", Subnetwork |-> Sub2Link,
      Users |-> << << "zones/z1/instances/vm2" >> >> ]
\* An address outside any subnetwork.
GlobalAddress ==
    [ Address |-> "10.0.0.9", Status |-> "RESERVED", Subnetwork |-> "",
      Users |-> << >> ]
\* Users present but empty.
EmptyUsersAddress ==
    [ Address |-> "10.0.0.10", Status |-> "IN_USE", Subnetwork |-> Sub1Link,
      Users |-> << << >> >> ]

Vm1 == [ Name |-> "vm1",
         NetworkInterfaces |-> << [ NetworkIP |-> "10.0.0.5", Subnetwork |-> Sub1Link ] >> ]
Vm2 == [ Name |-> "vm2",
         NetworkInterfaces |-> << [ NetworkIP |-> "10.0.0.10", Subnetwork |-> Sub1Link ] >> ]
\* An instance without network interface.
Vm3 == [ Name |-> "vm3", NetworkInterfaces |-> << >> ]

\* What service.Addresses.AggregatedList(project).Do() returns: nil with an
\* error, or a list whose Items hold the address records of each scope.
AddressResponses ==
    { << >> } \cup
    { << [ Items |-> items ] >> :
        items \in { << << ReservedAddress >> >>,
                    << << InUseAddress >>, << GlobalAddress >> >>,
                    << << EmptyUsersAddress >> >> } }

\* What service.Instances.AggregatedList(project).Do() returns.
InstanceResponses ==
    { << >> } \cup
    { << [ Items |-> items ] >> :
        items \in { << << Vm1 >> >>, << << Vm2 >> >>, << << Vm3 >> >> } }

\* A mutant of getResources: no snapshot (nil) when a query failed.
getResourcesNilOnError(project, addressAggregatedList, instanceAggregatedList) ==
    IF addressAggregatedList = << >> \/ instanceAggregatedList = << >>
    THEN << >>
    ELSE << [ Project |-> project,
              AddressList |-> addressAggregatedList,
              InstanceList |-> instanceAggregatedList ] >>

\* getResources: the snapshot of a project built from what its two queries
\* returned, a nil list for a query that failed; the snapshot is never nil.
getResources(project, addressAggregatedList, instanceAggregatedList) ==
    << [ Project |-> project,
         AddressList |-> addressAggregatedList,
         InstanceList |-> instanceAggregatedList ] >>

(***************************************************************************)
(* The state of a run                                                      *)
(***************************************************************************)
VARIABLES
    pc,                  \* where main is
    fatal,               \* the log.Fatal that ended the run: its cause ("" for none)
    resources,           \* res.Resources: the service projects' IDs
    worker,              \* worker[i]: where the goroutine of resources[i] is
    responses,           \* responses[i]: what the two queries of worker i returned
    result,              \* result[i]: what getResources returned to worker i
    wg,                  \* the WaitGroup's counter
    supervisor,          \* where the goroutine that waits and closes is
    closed,              \* whether ch is closed
    output,              \* getAllResources' output
    next,                \* flatten: the snapshots of the list taken so far
    project,             \* flatten: p.Project of the snapshot being processed
    addresses,           \* flatten: p's address records still to process, in order
    instances,           \* flatten: p's instance records still to process, in order
    addressInfoMap,      \* flatten's map from IP to AddressInfo
    inserted,            \* the AddressInfo given to insertAddressInfo so far, in order
    addressInfoBySubnet, \* extractFields' map from subnet to its AddressInfo list
    todo,                \* writeAll: the subnets its range has yet to visit
    files                \* the report files of this run, by subnet

vars ==
    << pc, fatal, resources, worker, responses, result, wg, supervisor, closed, output, next,
       project, addresses, instances, addressInfoMap, inserted, addressInfoBySubnet,
       todo, files >>

aggregation == << resources, worker, responses, result, wg, supervisor, closed, output >>
flattening == << next, project, addresses, instances, addressInfoMap, inserted >>
reporting == << addressInfoBySubnet, todo, files >>

\* Nothing done yet.
Fresh ==
    /\ fatal = ""
    /\ resources = << >>
    /\ worker = << >>
    /\ responses = << >>
    /\ result = << >>
    /\ wg = 0
    /\ supervisor = "none"
    /\ closed = FALSE
    /\ output = << >>
    /\ next = 0
    /\ project = ""
    /\ addresses = << >>
    /\ instances = << >>
    /\ addressInfoMap = EmptyMap
    /\ inserted = << >>
    /\ addressInfoBySubnet = EmptyMap
    /\ todo = {}
    /\ files = EmptyMap

\* main has called getAllResources (line 294), which is about to call
\* getServiceProjects.
Init == pc = "getServiceProjects" /\ Fresh

\* A mutant of logFatal: the error is logged and the run goes on.
logPrintf(cause) == fatal' = cause /\ UNCHANGED pc

\* log.Fatal(err): the error is logged and the process exits.
logFatal(cause) == fatal' = cause /\ pc' = "fatal"

(***************************************************************************)
(* getAllResources                                                         *)
(***************************************************************************)
\* A mutant of GetServiceProjects: the enumerator's error is logged and the
\* run goes on with the list it got.
GetServiceProjectsErrorLogged ==
    /\ pc = "getServiceProjects"
    /\ \E res \in ProjectLists : resources' = res
    /\ pc' = "launch"
    /\ fatal' \in { "", "getServiceProjects" }
    /\ UNCHANGED << worker, responses, result, wg, supervisor, closed, output >>
    /\ UNCHANGED << flattening, reporting >>

\* Lines 105-108: the project list, or log.Fatal on the enumerator's error.
GetServiceProjects ==
    /\ pc = "getServiceProjects"
    /\ \/ /\ logFatal("getServiceProjects")
          /\ UNCHANGED resources
       \/ /\ \E res \in ProjectLists : resources' = res
          /\ pc' = "launch"
          /\ UNCHANGED fatal
    /\ UNCHANGED << worker, responses, result, wg, supervisor, closed, output >>
    /\ UNCHANGED << flattening, reporting >>

\* A mutant of Launch: the goroutine is started without wg.Add(1).
LaunchWithoutAdd ==
    /\ pc = "launch"
    /\ Len(worker) < Len(resources)
    /\ worker' = Append(worker, "getResources")
    /\ responses' = Append(responses, [ addresses |-> << >>, instances |-> << >> ])
    /\ result' = Append(result, << >>)
    /\ UNCHANGED << pc, fatal, resources, wg, supervisor, closed, output >>
    /\ UNCHANGED << flattening, reporting >>

\* Lines 111-118, one iteration: wg.Add(1) and the goroutine of the next project.
Launch ==
    /\ pc = "launch"
    /\ Len(worker) < Len(resources)
    /\ wg' = wg + 1
    /\ worker' = Append(worker, "getResources")
    /\ responses' = Append(responses, [ addresses |-> << >>, instances |-> << >> ])
    /\ result' = Append(result, << >>)
    /\ UNCHANGED << pc, fatal, resources, supervisor, closed, output >>
    /\ UNCHANGED << flattening, reporting >>

\* Lines 121-124: after the loop, the goroutine that waits and closes; main
\* enters its range over ch.
StartSupervisor ==
    /\ pc = "launch"
    /\ Len(worker) = Len(resources)
    /\ supervisor' = "wait"
    /\ pc' = "collect"
    /\ UNCHANGED << fatal, resources, worker, responses, result, wg, closed, output >>
    /\ UNCHANGED << flattening, reporting >>

\* Line 116, getResources(projectID, service) in worker i: the two queries,
\* each of which may fail, and the snapshot built from what they returned.
GetResources(i) ==
    /\ i \in DOMAIN worker
    /\ worker[i] = "getResources"
    /\ \E addressAggregatedList \in AddressResponses,
          instanceAggregatedList \in InstanceResponses :
          /\ responses' = [responses EXCEPT ![i] =
                 [ addresses |-> addressAggregatedList,
                   instances |-> instanceAggregatedList ]]
          /\ result' = [result EXCEPT ![i] =
                 getResources(resources[i], addressAggregatedList, instanceAggregatedList)]
    /\ worker' = [worker EXCEPT ![i] = "send"]
    /\ UNCHANGED << pc, fatal, resources, wg, supervisor, closed, output >>
    /\ UNCHANGED << flattening, reporting >>

\* Lines 128-132, the body of main's range over ch: a non-nil s is appended.
Collected(out, s) == IF s # << >> THEN Append(out, s[1]) ELSE out

\* A mutant of Receive: the snapshots are received in the project list's order.
ReceiveInListOrder(i) ==
    /\ pc = "collect"
    /\ i \in DOMAIN worker
    /\ worker[i] = "send"
    /\ \A j \in 1..(i - 1) : worker[j] \in { "sent", "done" }
    /\ ~closed
    /\ output' = Collected(output, result[i])
    /\ worker' = [worker EXCEPT ![i] = "sent"]
    /\ UNCHANGED << pc, fatal, resources, responses, result, wg, supervisor, closed >>
    /\ UNCHANGED << flattening, reporting >>

\* Lines 116 and 128: worker i's send on the unbuffered ch meets main's receive.
Receive(i) ==
    /\ pc = "collect"
    /\ i \in DOMAIN worker
    /\ worker[i] = "send"
    /\ ~closed
    /\ output' = Collected(output, result[i])
    /\ worker' = [worker EXCEPT ![i] = "sent"]
    /\ UNCHANGED << pc, fatal, resources, responses, result, wg, supervisor, closed >>
    /\ UNCHANGED << flattening, reporting >>

\* A mutant of Done: worker i ends without wg.Done().
DoneForgotten(i) ==
    /\ i \in DOMAIN worker
    /\ worker[i] = "sent"
    /\ worker' = [worker EXCEPT ![i] = "done"]
    /\ UNCHANGED << pc, fatal, resources, responses, result, wg, supervisor, closed, output >>
    /\ UNCHANGED << flattening, reporting >>

\* Line 115: the deferred wg.Done() of worker i, after its send.
Done(i) ==
    /\ i \in DOMAIN worker
    /\ worker[i] = "sent"
    /\ wg' = wg - 1
    /\ worker' = [worker EXCEPT ![i] = "done"]
    /\ UNCHANGED << pc, fatal, resources, responses, result, supervisor, closed, output >>
    /\ UNCHANGED << flattening, reporting >>

\* A mutant of Waited: the supervisor does not wait.
WaitedNever == TRUE

\* Line 122: wg.Wait() returns when the counter is zero.
Waited == wg = 0

\* Lines 122-123: wg.Wait() has returned; close(ch).
Close ==
    /\ supervisor = "wait"
    /\ Waited
    /\ closed' = TRUE
    /\ supervisor' = "done"
    /\ UNCHANGED << pc, fatal, resources, worker, responses, result, wg, output >>
    /\ UNCHANGED << flattening, reporting >>

\* A mutant of Return: main leaves its loop once a snapshot per project is in
\* output, closed or not.
ReturnWhenAllCollected ==
    /\ pc = "collect"
    /\ Len(output) = Len(resources)
    /\ pc' = "flatten"
    /\ UNCHANGED << fatal, aggregation, flattening, reporting >>

\* Lines 128 and 134: the range over the closed ch ends and getAllResources
\* returns output; main calls extractFields, which calls flatten (line 218).
Return ==
    /\ pc = "collect"
    /\ closed
    /\ pc' = "flatten"
    /\ UNCHANGED << fatal, aggregation, flattening, reporting >>

(***************************************************************************)
(* flatten                                                                 *)
(***************************************************************************)
\* The orders in which the range over list.Items (a Go map from scope to scoped
\* list) can yield the records of a response; none for a nil response.
RecordOrders(list) ==
    IF list = << >> THEN { << >> }
    ELSE { Concat(items) : items \in Rearrangements(list[1].Items) }

\* Line 171, one iteration of flatten's loop begins: the next snapshot p.
FlattenNext ==
    /\ pc = "flatten"
    /\ addresses = << >> /\ instances = << >>
    /\ next < Len(output)
    /\ LET p == output[next + 1]
       IN  /\ project' = p.Project
           /\ addresses' \in RecordOrders(p.AddressList)
           /\ instances' \in RecordOrders(p.InstanceList)
    /\ next' = next + 1
    /\ UNCHANGED << pc, fatal, aggregation, addressInfoMap, inserted, reporting >>

\* Lines 177-191: the next address record of p; address.Users[0] panics when
\* Users is present and empty.
InsertAddress ==
    /\ pc = "flatten"
    /\ addresses # << >>
    /\ LET address == Head(addresses)
       IN  IF AddressPanics(address)
           THEN /\ pc' = "panic"
                /\ UNCHANGED << addresses, addressInfoMap, inserted >>
           ELSE /\ addressInfoMap' =
                       insertAddressInfo(addressInfoMap, AddressCandidate(project, address))
                /\ inserted' = Append(inserted, AddressCandidate(project, address))
                /\ addresses' = Tail(addresses)
                /\ UNCHANGED pc
    /\ UNCHANGED << fatal, aggregation, next, project, instances, reporting >>

\* A mutant of InsertInstance: p's instance records are not held back until
\* p's address records are done.
InsertInstanceAnyTime ==
    /\ pc = "flatten"
    /\ instances # << >>
    /\ LET instance == Head(instances)
       IN  IF InstancePanics(instance)
           THEN /\ pc' = "panic"
                /\ UNCHANGED << instances, addressInfoMap, inserted >>
           ELSE /\ addressInfoMap' =
                       insertAddressInfo(addressInfoMap, InstanceCandidate(project, instance))
                /\ inserted' = Append(inserted, InstanceCandidate(project, instance))
                /\ instances' = Tail(instances)
                /\ UNCHANGED pc
    /\ UNCHANGED << fatal, aggregation, next, project, addresses, reporting >>

\* Lines 200-207: the next instance record of p, after p's address records;
\* instance.NetworkInterfaces[0] panics when the instance has no interface.
InsertInstance ==
    /\ pc = "flatten"
    /\ addresses = << >>
    /\ instances # << >>
    /\ LET instance == Head(instances)
       IN  IF InstancePanics(instance)
           THEN /\ pc' = "panic"
                /\ UNCHANGED << instances, addressInfoMap, inserted >>
           ELSE /\ addressInfoMap' =
                       insertAddressInfo(addressInfoMap, InstanceCandidate(project, instance))
                /\ inserted' = Append(inserted, InstanceCandidate(project, instance))
                /\ instances' = Tail(instances)
                /\ UNCHANGED pc
    /\ UNCHANGED << fatal, aggregation, next, project, addresses, reporting >>

(***************************************************************************)
(* extractFields                                                           *)
(***************************************************************************)
\* A mutant of extractFields: each subnet keeps only the record appended last.
extractFieldsKeepLast(addressInfoByIP) ==
    LET infos == { addressInfoByIP[ip] : ip \in DOMAIN addressInfoByIP }
        subnets == { info.Subnet : info \in infos }
        group(subnet) == { info \in infos : info.Subnet = subnet }
    IN  { g \in [subnets -> { << info >> : info \in infos }] :
            \A subnet \in subnets : g[subnet][1] \in group(subnet) }

\* Lines 219-222: the maps extractFields can build from flatten's map.  The
\* range over addressInfoByIP visits its entries in any order, so each subnet's
\* list holds the subnet's records in any order.
extractFields(addressInfoByIP) ==
    LET infos == { addressInfoByIP[ip] : ip \in DOMAIN addressInfoByIP }
        subnets == { info.Subnet : info \in infos }
        group(subnet) == { info \in infos : info.Subnet = subnet }
    IN  { g \in [subnets -> UNION { Orders(group(subnet)) : subnet \in subnets }] :
            \A subnet \in subnets : g[subnet] \in Orders(group(subnet)) }

\* Lines 212 and 219-223: flatten's loop is over and returns the map;
\* extractFields groups it and returns; main calls writeAll (line 296).
ExtractFields ==
    /\ pc = "flatten"
    /\ addresses = << >> /\ instances = << >>
    /\ next = Len(output)
    /\ addressInfoBySubnet' \in extractFields(addressInfoMap)
    /\ todo' = DOMAIN addressInfoBySubnet'
    /\ pc' = "writeAll"
    /\ UNCHANGED << fatal, aggregation, flattening, files >>

(***************************************************************************)
(* writeAll and writeToFile                                                *)
(***************************************************************************)
\* Lines 245-249: what sort.Slice can leave in the list: a rearrangement in
\* which no record is less than one in front of it.
sortSlice(addressInfoList) ==
    { q \in Rearrangements(addressInfoList) :
        \A i, j \in DOMAIN q : i < j => ~less(q[j], q[i]) }

\* Lines 251-259: the rows of the table, in the list's order.
Rows(addressInfoList) ==
    [ i \in DOMAIN addressInfoList |->
        << addressInfoList[i].IP, addressInfoList[i].Project,
           addressInfoList[i].Status, addressInfoList[i].User >> ]

\* A mutant of Reported: every group is written.
ReportedAlways(subnet) == TRUE

\* Line 278: the groups writeAll hands to writeToFile.
Reported(subnet) == subnet # ""

\* Lines 278-279 and 228-270: writeToFile(subnet, addressInfoList) for a group
\* the range of writeAll visits.  os.Create or the header's WriteString may
\* fail, which is fatal; else the list is sorted in place and the table written.
WriteToFile(subnet) ==
    /\ pc = "writeAll"
    /\ subnet \in todo
    /\ Reported(subnet)
    /\ \/ /\ logFatal("os.Create")
          /\ UNCHANGED << addressInfoBySubnet, todo, files >>
       \/ /\ logFatal("WriteString")
          /\ files' = [ s \in DOMAIN files \cup { subnet } |->
                          IF s = subnet THEN [ header |-> FALSE, rows |-> << >> ]
                          ELSE files[s] ]
          /\ UNCHANGED << addressInfoBySubnet, todo >>
       \/ /\ \E sorted \in sortSlice(addressInfoBySubnet[subnet]) :
                /\ addressInfoBySubnet' = [addressInfoBySubnet EXCEPT ![subnet] = sorted]
                /\ files' = [ s \in DOMAIN files \cup { subnet } |->
                                IF s = subnet
                                THEN [ header |-> TRUE, rows |-> Rows(sorted) ]
                                ELSE files[s] ]
          /\ todo' = todo \ { subnet }
          /\ UNCHANGED << pc, fatal >>
    /\ UNCHANGED << aggregation, flattening >>

\* Line 278: the group without subnet is passed over.
Skip(subnet) ==
    /\ pc = "writeAll"
    /\ subnet \in todo
    /\ ~Reported(subnet)
    /\ todo' = todo \ { subnet }
    /\ UNCHANGED << pc, fatal, aggregation, flattening, addressInfoBySubnet, files >>

\* Lines 281 and 298-299: writeAll's range is over; main logs the time and ends.
Finish ==
    /\ pc = "writeAll"
    /\ todo = {}
    /\ pc' = "done"
    /\ UNCHANGED << fatal, aggregation, flattening, reporting >>

Subnets == { "", "sub1", "sub2" }

Next ==
    \/ GetServiceProjects
    \/ Launch
    \/ StartSupervisor
    \/ \E i \in 1..Len(ProjectIDs) : GetResources(i)
    \/ \E i \in 1..Len(ProjectIDs) : Receive(i)
    \/ \E i \in 1..Len(ProjectIDs) : Done(i)
    \/ Close
    \/ Return
    \/ FlattenNext
    \/ InsertAddress
    \/ InsertInstance
    \/ ExtractFields
    \/ \E subnet \in Subnets : WriteToFile(subnet)
    \/ \E subnet \in Subnets : Skip(subnet)
    \/ Finish

Spec == Init /\ [][Next]_vars

(***************************************************************************)
(* getAllResources under fair scheduling                                   *)
(***************************************************************************)
\* The steps of getAllResources, from its call to its return.
NextAggregate ==
    \/ GetServiceProjects
    \/ Launch
    \/ StartSupervisor
    \/ \E i \in 1..Len(ProjectIDs) : GetResources(i)
    \/ \E i \in 1..Len(ProjectIDs) : Receive(i)
    \/ \E i \in 1..Len(ProjectIDs) : Done(i)
    \/ Close
    \/ Return

\* The Go scheduler runs every goroutine that can take a step: main, each
\* worker and the supervisor; a query that was issued returns.  A worker
\* blocked on its send stays ready until main receives from it.
Fairness ==
    /\ WF_vars(GetServiceProjects)
    /\ WF_vars(Launch)
    /\ WF_vars(StartSupervisor)
    /\ \A i \in 1..Len(ProjectIDs) :
          /\ WF_vars(GetResources(i))
          /\ WF_vars(Receive(i))
          /\ WF_vars(Done(i))
    /\ WF_vars(Close)
    /\ WF_vars(Return)

SpecFair == Init /\ [][NextAggregate]_vars /\ Fairness

(***************************************************************************)
(* insertAddressInfo on its own: any candidates, inserted one after another *)
(***************************************************************************)
Candidates ==
    [ Project : { "svc-a", "svc-b" },
      IP : { "10.0.0.5", "10.0.0.10" },
      Status : { "", "RESERVED", "IN_USE" },
      Subnet : { "", "sub1", "sub2" },
      User : { "", "vm1", "vm2" } ]

InitInsert == pc = "insertAddressInfo" /\ Fresh

\* insertAddressInfo(addressInfoMap, addressInfo) for any candidate.
InsertAddressInfo ==
    /\ pc = "insertAddressInfo"
    /\ Len(inserted) < MaxInserts
    /\ \E addressInfo \in Candidates :
          /\ addressInfoMap' = insertAddressInfo(addressInfoMap, addressInfo)
          /\ inserted' = Append(inserted, addressInfo)
    /\ UNCHANGED << pc, fatal, aggregation, next, project, addresses, instances, reporting >>

NextInsert == InsertAddressInfo

SpecInsert == InitInsert /\ [][NextInsert]_vars

(***************************************************************************)
(* writeToFile on its own: any group of one subnet, in any order           *)
(***************************************************************************)
GroupIPs == { "10.0.0.2", "10.0.0.5", "10.0.0.9", "10.0.0.10", "10.0.1.1" }

\* The lists extractFields can hold for subnet sub1: records of distinct IPs.
Groups ==
    UNION { Orders(ips) : ips \in { S \in SUBSET GroupIPs : Cardinality(S) \in 1..MaxGroup } }

GroupRecord(ip) ==
    [ Project |-> "svc-a", IP |-> ip, Status |-> "RESERVED", Subnet |-> "sub1", User |-> "vm1" ]

\* main is about to call writeAll with one group.
InitSort ==
    /\ pc = "writeAll"
    /\ \E ips \in Groups :
          /\ addressInfoMap = [ ip \in Range(ips) |-> GroupRecord(ip) ]
          /\ addressInfoBySubnet = [ subnet \in { "sub1" } |->
                                       [ i \in DOMAIN ips |-> GroupRecord(ips[i]) ] ]
    /\ todo = { "sub1" }
    /\ fatal = ""
    /\ resources = << >> /\ worker = << >> /\ responses = << >> /\ result = << >>
    /\ wg = 0 /\ supervisor = "done" /\ closed = TRUE /\ output = << >>
    /\ next = 0 /\ project = "" /\ addresses = << >> /\ instances = << >>
    /\ inserted = << >>
    /\ files = EmptyMap

NextSort ==
    \/ \E subnet \in Subnets : WriteToFile(subnet)
    \/ Finish

SpecSort == InitSort /\ [][NextSort]_vars

(***************************************************************************)
(* flatten on its own: any snapshots, in any order                         *)
(***************************************************************************)
\* The AddressInfo sequences flatten can hand to insertAddressInfo for snapshot
\* p (lines 172-210): those of p's address records, then those of p's instance
\* records, each list's scopes in any order.
snapshotCandidates(p) ==
    { [ k \in DOMAIN as |-> AddressCandidate(p.Project, as[k]) ] \o
      [ k \in DOMAIN is |-> InstanceCandidate(p.Project, is[k]) ] :
        as \in RecordOrders(p.AddressList), is \in RecordOrders(p.InstanceList) }

\* insertAddressInfo for each candidate in turn.
RECURSIVE insertAll(_, _)
insertAll(infoMap, candidates) ==
    IF candidates = << >> THEN infoMap
    ELSE insertAll(insertAddressInfo(infoMap, Head(candidates)), Tail(candidates))

\* Line 171: the loop over the snapshots, from the maps built so far.
RECURSIVE flattenFrom(_, _)
flattenFrom(maps, projectResourceList) ==
    IF projectResourceList = << >> THEN maps
    ELSE flattenFrom({ insertAll(m, candidates) :
                          m \in maps,
                          candidates \in snapshotCandidates(Head(projectResourceList)) },
                     Tail(projectResourceList))

\* A mutant of flatten: every record is attributed to the first snapshot's project.
flattenFirstProject(projectResourceList) ==
    flattenFrom({ EmptyMap },
                [ k \in DOMAIN projectResourceList |->
                    [ projectResourceList[k] EXCEPT
                        !.Project = projectResourceList[1].Project ] ])

\* flatten as a function of the snapshot list whose records all have the
\* indexed element (Users[0], NetworkInterfaces[0]): the maps it can return.
flatten(projectResourceList) == flattenFrom({ EmptyMap }, projectResourceList)

\* Address responses for flatten: a failed query, and lists of one or two
\* scopes; in one the two scopes hold a record each for the same IP (an address
\* of that value in two regions).
FlattenAddressResponses ==
    { << >> } \cup
    { << [ Items |-> items ] >> :
        items \in { << << ReservedAddress >> >>,
                    << << ReservedAddress >>, << InUseAddress >> >>,
                    << << InUseAddress >>, << GlobalAddress >> >> } }

\* Instance responses for flatten.
FlattenInstanceResponses ==
    { << >> } \cup
    { << [ Items |-> items ] >> : items \in { << << Vm1 >> >>, << << Vm2 >> >> } }

\* getAllResources has returned the snapshots of the service projects, in any
\* order, and extractFields calls flatten.
InitFlatten ==
    /\ pc = "flatten"
    /\ resources \in ProjectLists
    /\ worker = [ i \in DOMAIN resources |-> "done" ]
    /\ responses \in [ DOMAIN resources ->
                          [ addresses : FlattenAddressResponses,
                            instances : FlattenInstanceResponses ] ]
    /\ result = [ i \in DOMAIN resources |->
                    getResources(resources[i], responses[i].addresses,
                                 responses[i].instances) ]
    /\ wg = 0 /\ supervisor = "done" /\ closed = TRUE
    /\ output \in Rearrangements([ i \in DOMAIN resources |-> result[i][1] ])
    /\ fatal = ""
    /\ next = 0 /\ project = "" /\ addresses = << >> /\ instances = << >>
    /\ addressInfoMap = EmptyMap /\ inserted = << >>
    /\ addressInfoBySubnet = EmptyMap /\ todo = {} /\ files = EmptyMap

NextFlatten ==
    \/ FlattenNext
    \/ InsertAddress
    \/ InsertInstance
    \/ ExtractFields

SpecFlatten == InitFlatten /\ [][NextFlatten]_vars

(***************************************************************************)
(* Properties                                                              *)
(***************************************************************************)
\* getAllResources has returned to main.
GetAllResourcesReturned ==
    \/ pc \in { "flatten", "panic", "writeAll", "done" }
    \/ pc = "fatal" /\ fatal # "getServiceProjects"

\* flatten has returned its map (and extractFields has grouped it).
FlattenReturned ==
    \/ pc \in { "writeAll", "done" }
    \/ pc = "fatal" /\ fatal # "getServiceProjects"

\* The records a response holds, over all its scopes.
Records(list) == IF list = << >> THEN {} ELSE UNION { Range(scope) : scope \in Range(list[1].Items) }

\* The IPs that occur in an address record or an instance record of a snapshot.
SourceIPs ==
    UNION { { address.Address : address \in Records(output[k].AddressList) } \cup
            { instance.NetworkInterfaces[1].NetworkIP :
                instance \in Records(output[k].InstanceList) } : k \in DOMAIN output }

Merged == { addressInfoMap[ip] : ip \in DOMAIN addressInfoMap }

\* C1: once flatten has processed the snapshots, in whatever order they were
\* collected, its map holds a record for exactly the IPs that occur in an
\* address or instance record of the snapshots, each record under its own IP,
\* so no two records share an IP.
C1_OneRecordPerIP ==
    FlattenReturned =>
        /\ DOMAIN addressInfoMap = SourceIPs
        /\ \A ip \in DOMAIN addressInfoMap : addressInfoMap[ip].IP = ip
        /\ \A ip1, ip2 \in DOMAIN addressInfoMap :
              ip1 # ip2 => addressInfoMap[ip1].IP # addressInfoMap[ip2].IP
        /\ Cardinality(Merged) = Cardinality(SourceIPs)

\* C1's case: an IP referenced by three or more source records, beside another IP.
C1_Witness ==
    /\ FlattenReturned
    /\ Cardinality(DOMAIN addressInfoMap) >= 2
    /\ \E ip \in DOMAIN addressInfoMap :
          Cardinality({ k \in DOMAIN inserted : inserted[k].IP = ip }) >= 3

\* The candidates inserted for an IP, in the order of their insertion.
CandidatesFor(ip) == SelectSeq(inserted, LAMBDA c : c.IP = ip)

\* The first value of a sequence of strings that is not empty, "" if none is.
RECURSIVE FirstNonEmpty(_)
FirstNonEmpty(values) ==
    IF values = << >> THEN ""
    ELSE IF Head(values) # "" THEN Head(values)
    ELSE FirstNonEmpty(Tail(values))

\* C2: first writer wins.  The merged record of an IP has the Project and IP of
\* the first candidate inserted for it, and each of Status, Subnet and User is
\* the first non-empty value among the candidates in insertion order; for two
\* candidates: the first's value where it is not empty, else the second's.
C2_FirstWriterWins ==
    \A ip \in DOMAIN addressInfoMap :
        LET cs == CandidatesFor(ip)
            merged == addressInfoMap[ip]
        IN  /\ cs # << >>
            /\ merged.IP = cs[1].IP
            /\ merged.Project = cs[1].Project
            /\ merged.Status = FirstNonEmpty([k \in DOMAIN cs |-> cs[k].Status])
            /\ merged.Subnet = FirstNonEmpty([k \in DOMAIN cs |-> cs[k].Subnet])
            /\ merged.User = FirstNonEmpty([k \in DOMAIN cs |-> cs[k].User])
            /\ Len(cs) = 2 =>
                  /\ merged.Status = IF cs[1].Status # "" THEN cs[1].Status ELSE cs[2].Status
                  /\ merged.Subnet = IF cs[1].Subnet # "" THEN cs[1].Subnet ELSE cs[2].Subnet
                  /\ merged.User = IF cs[1].User # "" THEN cs[1].User ELSE cs[2].User

\* C2's case: two candidates for one IP that disagree on Status and Subnet, the
\* first without User; the first's Status and Subnet stay, the second's User fills.
C2_Witness ==
    /\ Len(inserted) = 2
    /\ inserted[1].IP = inserted[2].IP
    /\ inserted[1].Project = "svc-a" /\ inserted[2].Project = "svc-b"
    /\ inserted[1].Status = "RESERVED" /\ inserted[2].Status = "IN_USE"
    /\ inserted[1].Subnet = "sub1" /\ inserted[2].Subnet = "sub2"
    /\ inserted[1].User = "" /\ inserted[2].User = "vm1"
    /\ addressInfoMap[inserted[1].IP] =
          [ Project |-> "svc-a", IP |-> inserted[1].IP, Status |-> "RESERVED",
            Subnet |-> "sub1", User |-> "vm1" ]

\* The end-to-end scenario: the service projects are svc-a and svc-b; svc-a's
\* address query returns the one reserved address 10.0.0.5 (RESERVED, sub1, no
\* user) and its instance query no record; svc-b's address query returns no
\* record and its instance query the one instance vm1 with 10.0.0.5 in sub1.
Scenario ==
    /\ resources = << "svc-a", "svc-b" >>
    /\ Len(worker) = 2
    /\ \A i \in 1..2 : worker[i] # "getResources"
    /\ responses[1].addresses = << [ Items |-> << << ReservedAddress >> >> ] >>
    /\ Records(responses[1].instances) = {}
    /\ Records(responses[2].addresses) = {}
    /\ responses[2].instances = << [ Items |-> << << Vm1 >> >> ] >>

ScenarioRecord(p) ==
    [ Project |-> p, IP |-> "10.0.0.5", Status |-> "RESERVED", Subnet |-> "sub1",
      User |-> "vm1" ]

\* C3 as stated: in the scenario the merged record is attributed to svc-a.
C3_AttributedToSvcA ==
    FlattenReturned /\ Scenario =>
        addressInfoMap = [ ip \in { "10.0.0.5" } |-> ScenarioRecord("svc-a") ]

\* C3, amended: in the scenario the map holds the one record {10.0.0.5, RESERVED,
\* sub1, vm1}, attributed to the project whose snapshot was collected first.
C3_AttributedToFirstCollected ==
    FlattenReturned /\ Scenario =>
        addressInfoMap = [ ip \in { "10.0.0.5" } |-> ScenarioRecord(output[1].Project) ]

\* C3's case: the scenario, with svc-a's snapshot collected first.
C3_Witness ==
    /\ FlattenReturned
    /\ Scenario
    /\ output[1].Project = "svc-a"
    /\ addressInfoMap["10.0.0.5"] = ScenarioRecord("svc-a")

\* How often r occurs in the list q.
Occurrences(q, r) == Cardinality({ i \in DOMAIN q : q[i] = r })

\* C4: after extractFields every merged record with a subnet is in the group of
\* its subnet, once, and in no other group; the groups of the named subnets
\* hold, together, the merged records that have a subnet and nothing else.
C4_SubnetPartition ==
    FlattenReturned =>
        /\ \A r \in Merged :
              r.Subnet # "" =>
                 /\ r.Subnet \in DOMAIN addressInfoBySubnet
                 /\ Occurrences(addressInfoBySubnet[r.Subnet], r) = 1
                 /\ \A subnet \in DOMAIN addressInfoBySubnet \ { r.Subnet } :
                       Occurrences(addressInfoBySubnet[subnet], r) = 0
        /\ UNION { Range(addressInfoBySubnet[subnet]) :
                     subnet \in DOMAIN addressInfoBySubnet \ { "" } }
              = { r \in Merged : r.Subnet # "" }

\* C4's case: records in two named subnets and a record without subnet.
C4_Witness ==
    /\ FlattenReturned
    /\ DOMAIN addressInfoBySubnet = { "", "sub1", "sub2" }
    /\ Cardinality(Merged) = 3

\* The number an IPv4 text denotes.
IPValue(ip) ==
    LET b == ParseIP(ip) IN ((b[13] * 256 + b[14]) * 256 + b[15]) * 256 + b[16]

IPColumn(rows) == [ i \in DOMAIN rows |-> rows[i][1] ]

\* C5: the rows of every table written are those of the subnet's records, in
\* strictly ascending order of the numeric value of their IP; the records of
\* 10.0.0.10, 10.0.0.2 and 10.0.0.9 are written as 10.0.0.2, 10.0.0.9, 10.0.0.10.
C5_NumericOrder ==
    \A subnet \in DOMAIN files :
        files[subnet].header =>
            LET rows == files[subnet].rows
            IN  /\ \A i, j \in DOMAIN rows :
                      i < j => IPValue(rows[i][1]) < IPValue(rows[j][1])
                /\ Range(rows) = { << r.IP, r.Project, r.Status, r.User >> :
                                     r \in { m \in Merged : m.Subnet = subnet } }
                /\ Range(IPColumn(rows)) = { "10.0.0.10", "10.0.0.2", "10.0.0.9" } =>
                      IPColumn(rows) = << "10.0.0.2", "10.0.0.9", "10.0.0.10" >>

\* C5's case: the table of the group 10.0.0.10, 10.0.0.2, 10.0.0.9 is written.
C5_Witness ==
    /\ pc = "done"
    /\ "sub1" \in DOMAIN files
    /\ files["sub1"].header
    /\ IPColumn(files["sub1"].rows) = << "10.0.0.2", "10.0.0.9", "10.0.0.10" >>

\* Worker i's address query succeeded and its instance query failed.
InstanceFetchFailed(i) ==
    /\ worker[i] # "getResources"
    /\ responses[i].addresses # << >>
    /\ responses[i].instances = << >>

\* C6: a project whose instance query fails and whose address query succeeds
\* yields a snapshot with the address list and no instance list; once flatten
\* has returned, the snapshot is in the output, every IP of its address records
\* has a merged record, and every other project has its snapshot in the output.
C6_PartialFailureIsolation ==
    \A i \in DOMAIN worker :
        InstanceFetchFailed(i) =>
            /\ result[i] = << [ Project |-> resources[i],
                                AddressList |-> responses[i].addresses,
                                InstanceList |-> << >> ] >>
            /\ FlattenReturned =>
                  /\ \E k \in DOMAIN output : output[k] = result[i][1]
                  /\ \A address \in Records(responses[i].addresses) :
                        /\ address.Address \in DOMAIN addressInfoMap
                        /\ addressInfoMap[address.Address].IP = address.Address
                  /\ \A j \in DOMAIN resources :
                        \E k \in DOMAIN output : output[k].Project = resources[j]

\* C6's case: of two projects, one with its reserved address fetched and its
\* instance query failed, the other with an instance, both merged.
C6_Witness ==
    /\ FlattenReturned
    /\ Len(resources) = 2
    /\ \E i, j \in DOMAIN worker :
          /\ InstanceFetchFailed(i)
          /\ ReservedAddress \in Records(responses[i].addresses)
          /\ Vm2 \in Records(responses[j].instances)
    /\ DOMAIN addressInfoMap = { "10.0.0.5", "10.0.0.10" }

\* C7: no report file is written for the empty subnet, and no row of any report
\* is that of a merged record without subnet; extractFields keeps the records
\* without subnet in the group of the empty key.
C7_EmptySubnetExcluded ==
    /\ "" \notin DOMAIN files
    /\ \A subnet \in DOMAIN files :
          \A i \in DOMAIN files[subnet].rows :
             LET ip == files[subnet].rows[i][1]
             IN  ip \in DOMAIN addressInfoMap /\ addressInfoMap[ip].Subnet = subnet
    /\ FlattenReturned =>
          \A r \in Merged :
             r.Subnet = "" =>
                /\ "" \in DOMAIN addressInfoBySubnet
                /\ Occurrences(addressInfoBySubnet[""], r) = 1

\* C7's case: a run that ends with a report written and a group without subnet
\* passed over.
C7_Witness ==
    /\ pc = "done"
    /\ "" \in DOMAIN addressInfoBySubnet
    /\ \E subnet \in DOMAIN files : files[subnet].rows # << >>

\* No status, subnet or user.
Partial(addressInfo) ==
    addressInfo.Status = "" /\ addressInfo.Subnet = "" /\ addressInfo.User = ""

Populated(addressInfo) ==
    /\ addressInfo.Project # "" /\ addressInfo.IP # ""
    /\ addressInfo.Status # "" /\ addressInfo.Subnet # "" /\ addressInfo.User # ""

\* C8: an insert of a candidate with no Status, Subnet and User for an IP whose
\* record is fully populated leaves the map as it was.
C8_PartialInfoIdempotent ==
    [][ ( /\ Len(inserted') = Len(inserted) + 1
          /\ Partial(inserted'[Len(inserted')])
          /\ inserted'[Len(inserted')].IP \in DOMAIN addressInfoMap
          /\ Populated(addressInfoMap[inserted'[Len(inserted')].IP]) )
        => addressInfoMap' = addressInfoMap ]_vars

\* C8's case: a fully populated record, then a candidate with the IP alone.
C8_Witness ==
    /\ Len(inserted) = 2
    /\ Populated(inserted[1])
    /\ Partial(inserted[2])
    /\ inserted[2].IP = inserted[1].IP
    /\ inserted[2].Project # inserted[1].Project
    /\ addressInfoMap = [ ip \in { inserted[1].IP } |-> inserted[1] ]

\* The snapshot of worker i's project, from what its queries returned.
SnapshotOf(i) ==
    [ Project |-> resources[i],
      AddressList |-> responses[i].addresses,
      InstanceList |-> responses[i].instances ]

\* C9: the output holds one snapshot for each worker whose send was received;
\* when getAllResources has returned it holds, for every discovered project,
\* exactly one snapshot, which is that project's (never nil), and no other.
C9_OneSnapshotPerProject ==
    /\ Len(output) = Cardinality({ i \in DOMAIN worker : worker[i] \in { "sent", "done" } })
    /\ GetAllResourcesReturned =>
          /\ Len(output) = Len(resources)
          /\ \A i \in DOMAIN resources :
                /\ result[i] # << >>
                /\ Cardinality({ k \in DOMAIN output : output[k].Project = resources[i] }) = 1
                /\ \E k \in DOMAIN output : output[k] = SnapshotOf(i)
          /\ \A k \in DOMAIN output :
                \E i \in DOMAIN resources : output[k].Project = resources[i]

\* C9's case: two projects, one with both queries failed, collected out of the
\* project list's order.
C9_Witness ==
    /\ GetAllResourcesReturned
    /\ Len(resources) = 2
    /\ output[1].Project = resources[2]
    /\ \E k \in DOMAIN output :
          output[k].AddressList = << >> /\ output[k].InstanceList = << >>

\* A report whose table has been written.
Written(subnet) == subnet \in DOMAIN files /\ files[subnet].header

\* C10 as stated: after a fatal error no report file of the run is written.
C10_NoReportOnFatal == pc = "fatal" => \A subnet \in Subnets : ~Written(subnet)

\* C10, amended: a fatal error ends the run at once.  After a failure to
\* enumerate the projects no worker was started and no report file exists;
\* after a failure to create a report file or to write its header, neither that
\* report nor the report of any subnet not yet visited is written, while the
\* reports written before remain.
C10_FatalEndsRun ==
    /\ [](fatal # "" => pc = "fatal")
    /\ [](fatal = "getServiceProjects" =>
             worker = << >> /\ output = << >> /\ files = EmptyMap)
    /\ [](fatal \in { "os.Create", "WriteString" } =>
             /\ todo # {}
             /\ \A subnet \in todo : ~Written(subnet)
             /\ \A subnet \in DOMAIN addressInfoBySubnet \ todo :
                   subnet # "" => Written(subnet))
    /\ [][pc # "fatal"]_vars

\* C10's case: the second report cannot be created after the first was written.
C10_Witness ==
    /\ pc = "fatal"
    /\ fatal = "os.Create"
    /\ \E subnet \in Subnets : Written(subnet)

\* C11: when the enumeration of the service projects fails the run ends there:
\* no worker was launched, no query made, no snapshot collected or merged and no
\* report file created, and no step follows.  getServiceProjects is the first
\* thing a run does and it is never called again.
C11_EnumeratorFailureAborts ==
    /\ [](fatal = "getServiceProjects" =>
             /\ pc = "fatal"
             /\ resources = << >> /\ worker = << >> /\ responses = << >> /\ result = << >>
             /\ wg = 0 /\ supervisor = "none" /\ ~closed /\ output = << >>
             /\ next = 0 /\ inserted = << >> /\ addressInfoMap = EmptyMap
             /\ addressInfoBySubnet = EmptyMap /\ files = EmptyMap)
    /\ [](pc = "getServiceProjects" => Fresh)
    /\ [][fatal # "getServiceProjects"]_vars
    /\ [][pc' # "getServiceProjects"]_vars

\* C11's case: the enumeration has failed.
C11_Witness == pc = "fatal" /\ fatal = "getServiceProjects" /\ worker = << >>

\* Every launched goroutine has ended and ch is closed.
Joined ==
    /\ Len(worker) = Len(resources)
    /\ \A i \in DOMAIN worker : worker[i] = "done"
    /\ wg = 0
    /\ supervisor = "done"
    /\ closed

\* C12: under fair scheduling, once the project list is obtained
\* getAllResources returns: every worker has handed over its snapshot and ended,
\* the supervisor has closed ch and ended, and main's loop is over with one
\* snapshot per project, for any number of projects, none included.
C12_EventuallyReturns ==
    (pc = "launch") ~> (pc = "flatten" /\ Joined /\ Len(output) = Len(resources))

\* C12's case: getAllResources has returned the snapshots of two projects.
C12_Witness == pc = "flatten" /\ Joined /\ Len(output) = 2

\* C13: while ch is closed every launched worker has completed its send (and
\* ended), so no worker is at or before its send on a closed ch; ch never
\* reopens, and the one step that closes it is the supervisor's last.
C13_ClosedAfterAllSends ==
    /\ [](closed =>
             /\ Len(worker) = Len(resources)
             /\ \A i \in DOMAIN worker : worker[i] = "done"
             /\ Len(output) = Len(worker))
    /\ [][closed => closed']_vars
    /\ [][closed' # closed => supervisor = "wait" /\ supervisor' = "done"]_vars
    /\ [][supervisor = "done" => supervisor' = "done"]_vars

\* C13's case: ch was closed after two workers' sends, main has yet to see it.
C13_Witness == closed /\ pc = "collect" /\ Len(worker) = 2 /\ Len(output) = 2

\* C14: flatten's map and extractFields' map are touched only after every
\* worker and the supervisor have ended and ch is closed, and nothing of the
\* aggregation changes from then on.
C14_MapsBuiltAfterJoin ==
    /\ []((\/ next > 0
           \/ inserted # << >>
           \/ addressInfoMap # EmptyMap
           \/ addressInfoBySubnet # EmptyMap) => Joined)
    /\ [][(\/ addressInfoMap' # addressInfoMap
           \/ addressInfoBySubnet' # addressInfoBySubnet)
          => Joined /\ UNCHANGED aggregation]_vars

\* C14's case: flatten is inserting the records of two projects' snapshots.
C14_Witness ==
    /\ pc = "flatten"
    /\ Len(worker) = 2
    /\ Len(inserted) >= 2
    /\ Joined

\* The projects of the snapshots in output, in output's order.
OutputProjects == [ k \in DOMAIN output |-> output[k].Project ]

\* The IPs that occur in an address record or an instance record of snapshot p.
SnapshotIPs(p) ==
    { address.Address : address \in Records(p.AddressList) } \cup
    { instance.NetworkInterfaces[1].NetworkIP : instance \in Records(p.InstanceList) }

\* The first snapshot of output that references ip.
FirstWith(ip) ==
    CHOOSE k \in DOMAIN output :
        /\ ip \in SnapshotIPs(output[k])
        /\ \A j \in 1..(k - 1) : ip \notin SnapshotIPs(output[j])

\* C15: the output's order is the order in which main receives the snapshots,
\* whatever the project list's order.  A worker's fetch can complete whatever
\* the other workers do, and main can receive next from any worker that is at
\* its send, so every order of the projects is the output's order in some run;
\* the returned output holds the projects in one of these orders, and each
\* merged record is attributed to the project of the first snapshot in output
\* that references its IP.
C15_AnyCompletionOrder ==
    /\ \A i \in DOMAIN worker :
          /\ worker[i] = "getResources" => ENABLED GetResources(i)
          /\ (pc = "collect" /\ worker[i] = "send") => ENABLED Receive(i)
    /\ GetAllResourcesReturned => OutputProjects \in Rearrangements(resources)
    /\ FlattenReturned =>
          \A ip \in DOMAIN addressInfoMap :
              addressInfoMap[ip].Project = output[FirstWith(ip)].Project

\* C15's case: the snapshot of the second project was collected first, and an
\* IP that both projects reference is attributed to the second project.
C15_Witness ==
    /\ FlattenReturned
    /\ Len(resources) = 2
    /\ OutputProjects = << resources[2], resources[1] >>
    /\ \E ip \in SnapshotIPs(output[1]) \cap SnapshotIPs(output[2]) :
          addressInfoMap[ip].Project = resources[2]

\* No IP is referenced by the snapshots of two projects.
NoSharedIP(list) ==
    \A j, k \in DOMAIN list :
        j # k => SnapshotIPs(list[j]) \cap SnapshotIPs(list[k]) = {}

\* No IP is referenced by two records of one response.
NoRepeatedIP(list) ==
    \A k \in DOMAIN list :
        \A a1, a2 \in Records(list[k].AddressList) : a1.Address = a2.Address => a1 = a2

\* C16: the map flatten returns is one that flatten can build from the
\* snapshots in the order they arrived, and when no IP occurs in the snapshots
\* of two projects flatten can build exactly the same maps from the snapshots
\* in every other order; it is the one map that the run returned unless two
\* records of one response share an IP.
C16_OrderIndependent ==
    FlattenReturned =>
        /\ addressInfoMap \in flatten(output)
        /\ NoSharedIP(output) =>
              \A q \in Rearrangements(output) :
                  /\ flatten(q) = flatten(output)
                  /\ NoRepeatedIP(output) => flatten(q) = { addressInfoMap }

\* C16's case: two projects with records of different IPs, the second
\* project's snapshot arrived first.
C16_Witness ==
    /\ FlattenReturned
    /\ Len(output) = 2
    /\ OutputProjects = << resources[2], resources[1] >>
    /\ NoSharedIP(output)
    /\ SnapshotIPs(output[1]) # {} /\ SnapshotIPs(output[2]) # {}
    /\ Cardinality(DOMAIN addressInfoMap) = 3

\* C17: over every insertAddressInfo call, each record in the map stays in the
\* map under its IP with the same IP and Project, each of its Status, Subnet and
\* User that is not empty keeps its value, and the record of every IP other
\* than the inserted one is unchanged.
C17_InsertFrame ==
    [][ Len(inserted') = Len(inserted) + 1 =>
          \A ip \in DOMAIN addressInfoMap :
              /\ ip \in DOMAIN addressInfoMap'
              /\ addressInfoMap'[ip].IP = addressInfoMap[ip].IP
              /\ addressInfoMap'[ip].Project = addressInfoMap[ip].Project
              /\ addressInfoMap[ip].Status # "" =>
                    addressInfoMap'[ip].Status = addressInfoMap[ip].Status
              /\ addressInfoMap[ip].Subnet # "" =>
                    addressInfoMap'[ip].Subnet = addressInfoMap[ip].Subnet
              /\ addressInfoMap[ip].User # "" =>
                    addressInfoMap'[ip].User = addressInfoMap[ip].User
              /\ ip # inserted'[Len(inserted')].IP =>
                    addressInfoMap'[ip] = addressInfoMap[ip] ]_vars

\* C17's case: a record with an empty User in the map, then the insert of a
\* record of another project for another IP: the first record is as it was.
C17_Witness ==
    /\ Len(inserted) = 2
    /\ inserted[1].IP # inserted[2].IP
    /\ inserted[1].Project # inserted[2].Project
    /\ inserted[1].User = "" /\ inserted[2].User # ""
    /\ DOMAIN addressInfoMap = { inserted[1].IP, inserted[2].IP }
    /\ addressInfoMap[inserted[1].IP] = inserted[1]

\* The number of records of a response, over all its scopes.
RecordCount(list) == IF list = << >> THEN 0 ELSE Len(Concat(list[1].Items))

\* The number of address and instance records of the first k snapshots of output.
RECURSIVE SnapshotRecords(_)
SnapshotRecords(k) ==
    IF k = 0 THEN 0
    ELSE SnapshotRecords(k - 1) + RecordCount(output[k].AddressList)
                                + RecordCount(output[k].InstanceList)

\* C18: flatten never fails, whatever the snapshots hold, and when it has
\* returned it has handed exactly one candidate to insertAddressInfo for every
\* address record and every instance record of every snapshot.
C18_FlattenTotal ==
    /\ pc # "panic"
    /\ FlattenReturned => Len(inserted) = SnapshotRecords(Len(output))

\* The IPs of the address records of the snapshots.
AddressIPs ==
    UNION { { address.Address : address \in Records(output[k].AddressList) } :
              k \in DOMAIN output }

\* The names of the instances of the snapshots that have ip.
InstanceNames(ip) ==
    UNION { { instance.Name : instance \in
                { i \in Records(output[k].InstanceList) :
                    i.NetworkInterfaces[1].NetworkIP = ip } } : k \in DOMAIN output }

\* name is what follows the last "/" of selfLink (all of it when it has none).
IsNameOf(name, selfLink) ==
    LET n == Chars(name)
        l == Chars(selfLink)
    IN  /\ \A k \in DOMAIN n : n[k] # "/"
        /\ Len(n) <= Len(l)
        /\ SubSeq(l, Len(l) - Len(n) + 1, Len(l)) = n
        /\ Len(l) > Len(n) => l[Len(l) - Len(n)] = "/"

\* C19: when flatten has returned, the record of an IP that no address record
\* of any snapshot has carries no Status, and its User is the name of an
\* instance with that IP.  The candidate flatten inserts for an address record
\* has the record's Address and Status and the name of its Subnetwork, and as
\* User the name of the record's first user, none when the record has no users.
C19_StatusFromAddressOnly ==
    /\ [](FlattenReturned =>
             \A ip \in DOMAIN addressInfoMap :
                 ip \notin AddressIPs =>
                     /\ addressInfoMap[ip].Status = ""
                     /\ addressInfoMap[ip].User \in InstanceNames(ip))
    /\ [][ (Len(inserted') = Len(inserted) + 1 /\ addresses # << >>) =>
             LET address == Head(addresses)
                 candidate == inserted'[Len(inserted')]
             IN  /\ candidate.Project = project
                 /\ candidate.IP = address.Address
                 /\ candidate.Status = address.Status
                 /\ IsNameOf(candidate.Subnet, address.Subnetwork)
                 /\ address.Users = << >> => candidate.User = ""
                 /\ address.Users # << >> =>
                       /\ candidate.User # ""
                       /\ IsNameOf(candidate.User, address.Users[1][1]) ]_vars

\* C19's case: one IP known from an instance alone, beside an IP of an address
\* record with a user.
C19_Witness ==
    /\ FlattenReturned
    /\ \E ip \in DOMAIN addressInfoMap :
          /\ ip \notin AddressIPs
          /\ addressInfoMap[ip].Status = "" /\ addressInfoMap[ip].User = "vm2"
    /\ \E ip \in DOMAIN addressInfoMap :
          /\ ip \in AddressIPs
          /\ addressInfoMap[ip].Status = "IN_USE" /\ addressInfoMap[ip].User = "vm2"

\* The candidates of the address records of snapshot p that have ip.
AddressCandidatesOf(p, ip) ==
    { AddressCandidate(p.Project, address) :
        address \in { a \in Records(p.AddressList) : a.Address = ip } }

\* The names of the instances of snapshot p that have ip.
InstanceNamesOf(p, ip) ==
    { instance.Name : instance \in
        { i \in Records(p.InstanceList) : i.NetworkInterfaces[1].NetworkIP = ip } }

\* C20: flatten inserts a candidate of an instance record of a snapshot only
\* when the snapshot's address records are all done.  So when the snapshot that
\* brings an IP into the map has an address record for it, the map's record
\* starts as the candidate of such an address record and keeps each of its
\* Status, Subnet and User that is not empty; the snapshot's instance with that
\* IP gives its name as User only when the address records have left User empty.
C20_AddressesBeforeInstances ==
    /\ [][ (Len(inserted') = Len(inserted) + 1 /\ instances' # instances) =>
             addresses = << >> ]_vars
    /\ [](FlattenReturned =>
             \A ip \in DOMAIN addressInfoMap :
                 LET p == output[FirstWith(ip)]
                     first == CandidatesFor(ip)[1]
                     merged == addressInfoMap[ip]
                 IN  AddressCandidatesOf(p, ip) # {} =>
                         /\ first \in AddressCandidatesOf(p, ip)
                         /\ merged.Project = first.Project
                         /\ first.Status # "" => merged.Status = first.Status
                         /\ first.Subnet # "" => merged.Subnet = first.Subnet
                         /\ first.User # "" => merged.User = first.User
                         /\ ( /\ InstanceNamesOf(p, ip) # {}
                              /\ \A c \in AddressCandidatesOf(p, ip) : c.User = "" )
                            => merged.User \in InstanceNamesOf(p, ip))

\* C20's case: the first snapshot has the address 10.0.0.5 in use by vm2 in sub2
\* and the instance vm1 with 10.0.0.5 in sub1: the record is the address's.
C20_Witness ==
    /\ FlattenReturned
    /\ "10.0.0.5" \in DOMAIN addressInfoMap
    /\ FirstWith("10.0.0.5") = 1
    /\ InstanceNamesOf(output[1], "10.0.0.5") = { "vm1" }
    /\ AddressCandidatesOf(output[1], "10.0.0.5") =
          { [ Project |-> output[1].Project, IP |-> "10.0.0.5", Status |-> "IN_USE",
              Subnet |-> "sub2", User |-> "vm2" ] }
    /\ addressInfoMap["10.0.0.5"] =
          [ Project |-> output[1].Project, IP |-> "10.0.0.5", Status |-> "IN_USE",
            Subnet |-> "sub2", User |-> "vm2" ]

====
